---- MODULE Spec2Model ----
(***************************************************************************)
(* A model of publish.py (mhils/paper-template): the pipeline that copies  *)
(* a LaTeX paper into dist/, collects the files the build misses, strips   *)
(* TeX comments, rebuilds, and compares the rendered PDFs page by page.    *)
(*                                                                         *)
(* Paths.  A file name is the sequence of its dot-separated parts          *)
(* ("plot.pdf" is <<"plot","pdf">>), a path is a sequence of names, and    *)
(* DotDot is the name "..".  pathlib joins and renames paths lexically;    *)
(* the operating system resolves ".." when a path is used (Real).          *)
(*                                                                         *)
(* File contents.  A text is a sequence of one-character strings; the      *)
(* content of a PDF is the sequence of page images it renders to; other    *)
(* contents are one-token sequences.                                       *)
(***************************************************************************)
EXTENDS Integers, Sequences, FiniteSets, TLC

VARIABLES
    files,      \* the file system's regular files: resolved path -> content
    dirs,       \* the file system's directories: set of resolved paths
    scratch,    \* the page image directories: resolved path -> [exists, a, b]
    cmd,        \* the CLI command being executed, "none" between commands
    pc,         \* the position of the executing command
    runs,       \* _collect: the local counter `runs`
    todo,       \* _collect: the part of `missing` the for loop has not visited
    proc,       \* the result of the last _compile: (proc, missing)
    output,     \* the message that ended the last stage, or the uncaught exception
    a_pages,    \* _compare: the sorted listing of tmpdir/a
    b_pages,    \* _compare: the sorted listing of tmpdir/b
    page,       \* _compare: the loop index i (zero-based)
    verdict,    \* _compare: the returned value, or "none" while it runs
    contents,   \* _squash_comments: the text of the file being stripped
    n,          \* _squash_comments: the substitution count of the last subn
    trace,      \* history: the stage events of the current `run`
    reported,   \* history: the files the builds of the current _collect reported
    text0,      \* history: the text the stripper was first given
    passes,     \* history: how many times the stripper ran on `contents`
    tmpdir,     \* compare, _compare: the page image directory `tmpdir`
    given,      \* compare: whether the option --tmpdir was given
    asked,      \* history: the answer to click.confirm, "none" if it did not ask
    stale,      \* history: tmpdir held page images when the command reached it
    listing,    \* history: the order in which the glob of the last copy listed
    captured    \* history: what the last _compile of this command captured

vars == <<files, dirs, scratch, cmd, pc, runs, todo, proc, output,
          a_pages, b_pages, page, verdict, contents, n,
          trace, reported, text0, passes, tmpdir, given, asked, stale, listing, captured>>

fsVars      == <<files, dirs, scratch>>
compareVars == <<a_pages, b_pages, page, verdict>>
stripVars   == <<contents, n, text0, passes>>
histVars    == <<trace, reported>>
tmpVars     == <<tmpdir, given, asked, stale>>

----------------------------------------------------------------------------
(* Bounds *)

MaxRuns     == 3   \* `runs` is exact up to MaxRuns and saturates there
MaxReport   == 2   \* most files one build reports missing
MaxLen      == 5   \* longest text given to the stripper on its own
MaxPages    == 2   \* longest page sequence given to the comparator on its own

----------------------------------------------------------------------------
(* Sequences *)

Last(s)   == s[Len(s)]
Front(s)  == SubSeq(s, 1, Len(s) - 1)
Range(s)  == {s[k] : k \in 1..Len(s)}
IsPrefix(s, t) == Len(s) <= Len(t) /\ SubSeq(t, 1, Len(s)) = s
Min(x, y) == IF x <= y THEN x ELSE y

RECURSIVE SeqsUpTo(_, _)
SeqsUpTo(S, k) ==
    IF k = 0 THEN {<<>>}
    ELSE LET shorter == SeqsUpTo(S, k - 1)
         IN  shorter \cup {Append(s, x) : s \in {t \in shorter : Len(t) = k - 1}, x \in S}

RECURSIVE SubSeqsOf(_)
SubSeqsOf(s) ==
    IF s = <<>> THEN {<<>>}
    ELSE LET rest == SubSeqsOf(Tail(s))
         IN  rest \cup {<<Head(s)>> \o r : r \in rest}

RECURSIVE Perms(_)
Perms(S) ==
    IF S = {} THEN {<<>>}
    ELSE UNION {{<<x>> \o p : p \in Perms(S \ {x})} : x \in S}

----------------------------------------------------------------------------
(* pathlib *)

DotDot == <<"..">>

Parent(p)  == Front(p)
Name(p)    == Last(p)
Join(p, r) == p \o r
with_name(p, nm)    == Append(Front(p), nm)
with_suffix(p, ext) == with_name(p, Append(Front(Name(p)), ext))

\* Path.relative_to: lexical, raises ValueError unless base is a prefix.
relative_to(p, base) == SubSeq(p, Len(base) + 1, Len(p))

\* The path the operating system reaches from the first k names of p: ".."
\* steps to the parent directory.
RECURSIVE RealUpTo(_, _)
RealUpTo(p, k) ==
    IF k = 0 THEN <<>>
    ELSE IF p[k] = DotDot
         THEN SubSeq(RealUpTo(p, k - 1), 1, Len(RealUpTo(p, k - 1)) - 1)
         ELSE Append(RealUpTo(p, k - 1), p[k])

\* The path the operating system reaches from p (p is evaluated once).
Real(p) == CHOOSE r \in {RealUpTo(v, Len(v)) : v \in {p}} : TRUE

Under(p, d) == Len(p) > Len(d) /\ SubSeq(p, 1, Len(d)) = d

----------------------------------------------------------------------------
(* The project layout *)

AUXDIR == <<"tmp">>

paper == << <<"proj">>, <<"paper", "tex">> >>

dist_dir(p) == Append(Parent(p), <<"dist">>)
src_dir(p)  == Parent(p)
dist(p)     == Append(dist_dir(p), Name(p))

aux_dir  == Append(dist_dir(paper), AUXDIR)
log_out  == Append(aux_dir, <<"latexmk-stdout", "txt">>)
log_err  == Append(aux_dir, <<"latexmk-stderr", "txt">>)
src_pdf  == with_suffix(paper, "pdf")
dist_pdf == with_suffix(dist(paper), "pdf")

\* The page image directories: the default (run line 85, compare line 178),
\* another spelling of the default, `here / "diff"` (line 176), and a
\* directory of the user's.
default_tmpdir == Append(aux_dir, <<"diff">>)
alias_tmpdir   == default_tmpdir \o <<DotDot, <<"diff">>>>
here_tmpdir    == << <<"here">>, <<"diff">> >>
user_tmpdir    == << <<"pages">> >>

----------------------------------------------------------------------------
(* _squash_comments: re.subn(r"(?<!\\)((?:\\\\)*%).+", r"\1", contents) *)

BS == "\\"
PC == "%"
NL == "\n"
Chars == {BS, PC, NL, "a"}

\* (?<!\\): the character before position i is not a backslash.
Lookbehind(s, i) == i = 1 \/ s[i - 1] # BS

\* (?:\\\\)* can consume j pairs of backslashes from position i.
PairsAt(s, i, j) == i + 2 * j - 1 <= Len(s) /\ \A k \in i..(i + 2 * j - 1) : s[k] = BS

\* .+ : at least one character other than a newline follows position m.
DotPlusMatches(s, m) == m + 1 <= Len(s) /\ s[m + 1] # NL

\* A lazy .+? would end after one character.
LazyDotPlusEnd(s, m) == m + 1

\* .+ is greedy: it ends at the last character before the next newline.
DotPlusEnd(s, m) ==
    CHOOSE e \in (m + 1)..Len(s) :
        /\ \A k \in (m + 1)..e : s[k] # NL
        /\ e = Len(s) \/ s[e + 1] = NL

\* The pair counts j for which ((?:\\\\)*%).+ matches at i, the group ending
\* at the marker i + 2j.
GroupCounts(s, i) ==
    {j \in 0..(Len(s) \div 2) :
        /\ PairsAt(s, i, j)
        /\ i + 2 * j <= Len(s)
        /\ s[i + 2 * j] = PC
        /\ DotPlusMatches(s, i + 2 * j)}

\* The pattern without its lookbehind.
MatchesAtNoLookbehind(s, i) == GroupCounts(s, i) # {}

\* The whole pattern matches at position i.
MatchesAt(s, i) == Lookbehind(s, i) /\ GroupCounts(s, i) # {}

\* The position of the marker that ends group 1: the star is greedy, so the
\* engine settles for the largest pair count that lets the rest match.
GroupEnd(s, i) ==
    LET j == CHOOSE j \in GroupCounts(s, i) : \A k \in GroupCounts(s, i) : k <= j
    IN  i + 2 * j

\* re.subn scanning from position i: [out |-> the new text, n |-> the count].
RECURSIVE SubnFrom(_, _)
SubnFrom(s, i) ==
    IF i > Len(s) THEN [out |-> <<>>, n |-> 0]
    ELSE IF MatchesAt(s, i)
         THEN LET g    == GroupEnd(s, i)
                  rest == SubnFrom(s, DotPlusEnd(s, g) + 1)
              IN  [out |-> SubSeq(s, i, g) \o rest.out, n |-> rest.n + 1]
         ELSE LET rest == SubnFrom(s, i + 1)
              IN  [out |-> <<s[i]>> \o rest.out, n |-> rest.n]

\* A substitution that finds nothing.
NoSubn(s) == [out |-> s, n |-> 0]

\* re.subn over the whole text.
Subn(s) == SubnFrom(s, 1)

----------------------------------------------------------------------------
(* _compare: page images and ImageChops *)

Pixels == {0, 1}

Coords(size) == (1..size[1]) \X (1..size[2])

\* The (width, height) pairs of the page images explored.
Sizes == {<<1, 1>>, <<2, 1>>, <<1, 2>>}

Images == UNION {[size : {sz}, px : [Coords(sz) -> Pixels]] : sz \in Sizes}

Abs(x) == IF x < 0 THEN -x ELSE x

\* ImageChops.difference: the absolute difference over the common region.
difference(image_a, image_b) ==
    LET size == << Min(image_a.size[1], image_b.size[1]),
                   Min(image_a.size[2], image_b.size[2]) >>
    IN  [size |-> size,
         px   |-> [c \in Coords(size) |-> Abs(image_a.px[c] - image_b.px[c])]]

\* Image.getbbox() is None: the image has no non-zero pixel.
BBoxIsNone(image) == \A c \in Coords(image.size) : image.px[c] = 0

\* The condition without the comparison of the pixels.
PagesMatchNoPixels(image_a, image_b) == image_a.size = image_b.size

\* The condition without the comparison of the sizes.
PagesMatchNoSize(image_a, image_b) ==
    BBoxIsNone(difference(image_a, image_b))

\* The condition of the loop body's if.
PagesMatch(image_a, image_b) ==
    image_a.size = image_b.size /\ BBoxIsNone(difference(image_a, image_b))

----------------------------------------------------------------------------
(* The file system *)

FS(f, d) == [files |-> f, dirs |-> d]

is_file(fs, p) == Real(p) \in DOMAIN fs.files
is_dir(fs, p)  == Real(p) \in fs.dirs
exists(fs, p)  == is_file(fs, p) \/ is_dir(fs, p)

Prefixes(p) == {SubSeq(p, 1, k) : k \in 1..Len(p)}

\* Path.mkdir(parents=True, exist_ok=True)
mkdir_parents(fs, p) == FS(fs.files, fs.dirs \cup Prefixes(Real(p)))

\* A write that leaves no other file.
write_only(fs, p, c) == FS((Real(p) :> c), fs.dirs)

\* open(p, "w").write(c): creates the file or replaces its content.
write(fs, p, c) == FS((Real(p) :> c) @@ fs.files, fs.dirs)

\* shutil.rmtree(p)
rmtree(fs, p) ==
    LET gone(q) == q = Real(p) \/ Under(q, Real(p))
    IN  FS([q \in {r \in DOMAIN fs.files : ~gone(r)} |-> fs.files[q]],
           {q \in fs.dirs : ~gone(q)})

NoError == [kind |-> "ok", path |-> <<>>]

\* shutil.copy(src, dst): [fs |-> the file system afterwards, err |-> the
\* exception raised, NoError if none].  A destination that is a directory
\* receives the file under the source's name.
shutil_copy(fs, src, dst) ==
    LET target == IF is_dir(fs, dst) THEN Join(dst, <<Name(src)>>) ELSE dst
    IN  IF ~exists(fs, src)
          THEN [fs |-> fs, err |-> [kind |-> "FileNotFoundError", path |-> src]]
        ELSE IF is_dir(fs, src)
          THEN [fs |-> fs, err |-> [kind |-> "IsADirectoryError", path |-> src]]
        ELSE IF Real(src) = Real(target)
          THEN [fs |-> fs, err |-> [kind |-> "SameFileError", path |-> src]]
        ELSE IF ~is_dir(fs, Parent(target))
          THEN [fs |-> fs, err |-> [kind |-> "FileNotFoundError", path |-> target]]
        ELSE [fs |-> write(fs, target, fs.files[Real(src)]), err |-> NoError]

\* Path.glob(name + ".*") in directory d: the entries whose name starts with
\* name followed by a dot.
glob_stem(fs, d, name) ==
    IF ~is_dir(fs, d) THEN {}
    ELSE {Join(d, <<Name(q)>>) :
            q \in {r \in DOMAIN fs.files \cup fs.dirs :
                     /\ r # <<>>
                     /\ Parent(r) = Real(d)
                     /\ Len(Name(r)) > Len(name)
                     /\ SubSeq(Name(r), 1, Len(name)) = name}}

\* Path.glob("**/*.tex") in directory d: everything below d named *.tex.
glob_tex(fs, d) ==
    {q \in DOMAIN fs.files \cup fs.dirs :
        Under(q, Real(d)) /\ Len(Name(q)) > 1 /\ Last(Name(q)) = "tex"}

----------------------------------------------------------------------------
(* The project on disk *)

P0 == [size |-> <<1, 1>>, px |-> [c \in Coords(<<1, 1>>) |-> 0]]
P1 == [size |-> <<1, 1>>, px |-> [c \in Coords(<<1, 1>>) |-> 1]]

PaperTex == <<"a", PC, "a", NL, BS, PC, "a">>
SecTex   == <<BS, BS, PC, "a">>

sec_tex    == << <<"sec", "tex">> >>
fig_plot   == << <<"fig">>, <<"plot">> >>
plot_pdf   == << <<"fig">>, <<"plot", "pdf">> >>
plot_png   == << <<"fig">>, <<"plot", "png">> >>
plot_d     == << <<"fig">>, <<"plot", "d">> >>
shared_sty == << DotDot, <<"shared", "sty">> >>

\* The file names a build may report missing, in the order sorted() gives
\* their strings: "../shared.sty" < "fig/plot" < "fig/plot.pdf" < "sec.tex".
Reportable == <<shared_sty, fig_plot, plot_pdf, sec_tex>>

\* The Missing-File Reports a build may return: sorted, without duplicates.
Reports == {m \in SubSeqsOf(Reportable) : Len(m) <= MaxReport}

\* The PDFs a build may write, as the pages they render to.
BuildPdfs == {<<P0>>}

InSrc(r) == Join(src_dir(paper), r)
InDist(r) == Join(dist_dir(paper), r)

\* The optional entries of the project directories explored.
Projects ==
    {[f |-> {}, d |-> FALSE],
     [f |-> {plot_pdf, <<Name(src_pdf)>>}, d |-> FALSE],
     [f |-> {plot_pdf, plot_png, <<Name(src_pdf)>>}, d |-> FALSE],
     [f |-> {plot_pdf, <<Name(src_pdf)>>}, d |-> TRUE],
     [f |-> {}, d |-> TRUE]}

\* A project directory: paper.tex, sec.tex and ../shared.sty, and any of
\* fig/plot.pdf, fig/plot.png, the directory fig/plot.d and paper.pdf.
SourceTrees ==
    {FS([q \in {Real(InSrc(r)) : r \in {<<Name(paper)>>, sec_tex, shared_sty} \cup opt.f}
            |-> IF q = paper THEN PaperTex
                ELSE IF q = Real(InSrc(sec_tex)) THEN SecTex
                ELSE IF q = src_pdf THEN <<P0>>
                ELSE <<Last(Name(q))>>],
        {src_dir(paper)}
            \cup (IF opt.f \cap {plot_pdf, plot_png} # {} \/ opt.d
                    THEN {InSrc(<<fig_plot[1]>>)} ELSE {})
            \cup (IF opt.d THEN {InSrc(plot_d)} ELSE {})) :
     opt \in Projects}

NoScratch == [exists |-> FALSE, a |-> <<>>, b |-> <<>>]

ScratchDirs == {default_tmpdir, here_tmpdir, user_tmpdir}

\* The Working Copy: the files below dist/; the Auxiliary Directory below it.
InWC(q)  == Under(q, dist_dir(paper))
InAux(q) == q = aux_dir \/ Under(q, aux_dir)
WCFiles(f) == {q \in DOMAIN f : InWC(q) /\ ~InAux(q)}

----------------------------------------------------------------------------
(* Control *)

NoProc == [missing |-> <<>>, other_error |-> FALSE]

\* A printed message or an uncaught exception: its kind, the path and the
\* numbers it names, and the build output it dumps.
Out(kind, path, num) ==
    [kind |-> kind, path |-> path, num |-> num, num2 |-> 0, diag |-> NoProc]
NoOutput == Out("none", <<>>, 0)

\* What a build can print: file-not-found diagnostics for the files of a
\* report, with or without diagnostics of another kind.
BuildOutcomes ==
    {o \in [missing : Reports, other_error : BOOLEAN] : o.other_error => o.missing = <<>>}

\* run, with the stages strip and collect exchanged.
RunStagesStripFirst == <<"init", "strip", "collect", "build", "compare">>

\* run: the calls of lines 77 to 86, in order.
RunStages == <<"init", "collect", "strip", "build", "compare">>

\* The stage a single-stage command executes.
StageOf(c) ==
    CASE c = "init"            -> "init"
      [] c = "collect"         -> "collect"
      [] c = "squash_comments" -> "strip"
      [] c = "compile"         -> "build"

StageCommands == {"init", "collect", "squash_comments", "compile"}

\* Where control goes when a stage returns.
After(stage) ==
    IF cmd = "run"
    THEN LET k == CHOOSE k \in 1..Len(RunStages) : RunStages[k] = stage
         IN  IF k < Len(RunStages) THEN RunStages[k + 1] ELSE "report"
    ELSE "idle"

\* The events of stages that ran one after the other.
RECURSIVE Events(_)
Events(stages) ==
    IF stages = <<>> THEN <<>>
    ELSE << <<Head(stages), "begin">>, <<Head(stages), "end">> >> \o Events(Tail(stages))

Begin(stage) == IF cmd = "run" THEN Append(trace, <<stage, "begin">>) ELSE trace
End(tr, stage) == IF cmd = "run" THEN Append(tr, <<stage, "end">>) ELSE tr

Returns(stage) ==
    /\ pc' = After(stage)
    /\ cmd' = IF After(stage) = "idle" THEN "none" ELSE cmd

Raises(err) ==
    /\ pc' = "crashed"
    /\ cmd' = "none"
    /\ output' = Out(err.kind, err.path, 0)

SetFS(fs) == files' = fs.files /\ dirs' = fs.dirs

Now == FS(files, dirs)

Irregular == [regular |-> FALSE, files |-> {}]

----------------------------------------------------------------------------
(* Init *)

TypeDefaults ==
    /\ scratch = [d \in ScratchDirs |-> NoScratch]
    /\ tmpdir = default_tmpdir
    /\ given = FALSE
    /\ asked = "none"
    /\ stale = FALSE
    /\ listing = <<>>
    /\ runs = 0
    /\ todo = <<>>
    /\ proc = NoProc
    /\ captured = NoProc
    /\ output = NoOutput
    /\ trace = <<>>
    /\ reported = Irregular

CompareIdle == a_pages = <<>> /\ b_pages = <<>> /\ page = 0 /\ verdict = "none"
StripIdle   == contents = <<>> /\ n = 0 /\ text0 = <<>> /\ passes = 0

\* The commands are run on a project that has no dist/ yet.
Init ==
    /\ \E fs \in SourceTrees : files = fs.files /\ dirs = fs.dirs
    /\ cmd = "none"
    /\ pc = "idle"
    /\ TypeDefaults
    /\ CompareIdle
    /\ StripIdle

----------------------------------------------------------------------------
(* _compile *)

\* The file system after _compile(dist(paper)): the build leaves its PDF next
\* to the document (pdf = <<>>: it writes none); the captured output, here
\* one token per stream, replaces the logs in dist/tmp.
compile_fs(fs, outcome, pdf) ==
    LET built  == IF pdf = <<>> THEN fs ELSE write(fs, dist_pdf, pdf)
        logged == mkdir_parents(built, aux_dir)
    IN  write(write(logged, log_out, <<"stdout">>), log_err, <<"stderr">>)

----------------------------------------------------------------------------
(* The commands *)

ResetLocals ==
    /\ runs' = 0
    /\ todo' = <<>>
    /\ proc' = NoProc
    /\ captured' = NoProc
    /\ output' = NoOutput
    /\ reported' = Irregular
    /\ a_pages' = <<>> /\ b_pages' = <<>> /\ page' = 0 /\ verdict' = "none"
    /\ asked' = "none"
    /\ stale' = FALSE
    /\ listing' = <<>>

\* run, lines 73 to 75: the optional removal of dist/.
StartRun(clean) ==
    /\ cmd = "none"
    /\ pc \in {"idle", "crashed"}
    /\ cmd' = "run"
    /\ pc' = RunStages[1]
    /\ IF clean /\ exists(Now, dist_dir(paper))
         THEN /\ SetFS(rmtree(Now, dist_dir(paper)))
              /\ scratch' = [scratch EXCEPT ![default_tmpdir] = NoScratch]
         ELSE UNCHANGED fsVars
    /\ trace' = <<>>
    /\ tmpdir' = default_tmpdir
    /\ given' = FALSE
    /\ ResetLocals
    /\ UNCHANGED stripVars

\* init, collect, squash_comments, compile: one stage each.
StartStage(c) ==
    /\ cmd = "none"
    /\ pc \in {"idle", "crashed"}
    /\ cmd' = c
    /\ pc' = StageOf(c)
    /\ trace' = <<>>
    /\ ResetLocals
    /\ UNCHANGED <<fsVars, stripVars, tmpdir, given>>

\* _init
DoInit ==
    /\ pc = "init"
    /\ LET made   == FS(files, dirs \cup {dist_dir(paper)})
           copied == IF exists(made, dist(paper))
                       THEN [fs |-> made, err |-> NoError]
                       ELSE shutil_copy(made, paper, dist(paper))
       IN  /\ SetFS(copied.fs)
           /\ IF copied.err # NoError
                THEN Raises(copied.err) /\ UNCHANGED trace
                ELSE /\ output' = Out("initialized", dist_dir(paper), 0)
                     /\ trace' = End(Begin("init"), "init")
                     /\ Returns("init")
    /\ UNCHANGED <<scratch, runs, todo, proc, captured, reported, compareVars, stripVars,
                   tmpVars, listing>>

\* A counter that is set rather than incremented.
StuckRuns(r) == 1

\* runs += 1, counted exactly up to MaxRuns
NextRuns(r) == Min(r + 1, MaxRuns)

\* _collect, line 233
CollectEnter ==
    /\ pc = "collect"
    /\ runs' = 0
    /\ pc' = "collect_build"
    /\ trace' = Begin("collect")
    /\ reported' = [regular |-> WCFiles(files) = {dist(paper)}, files |-> {}]
    /\ UNCHANGED <<fsVars, cmd, todo, proc, captured, output, compareVars, stripVars,
                   tmpVars, listing>>

\* A report of exactly one file that the Source Tree holds and the Working
\* Copy lacks, or the empty report.
OneStillMissing(fs, m) ==
    \/ m = <<>>
    \/ /\ Len(m) = 1
       /\ DotDot \notin Range(m[1])
       /\ is_file(fs, InSrc(m[1]))
       /\ ~exists(fs, InDist(m[1]))

\* _collect, lines 236 to 238 and 254 to 256: one build attempt.
CollectBuild ==
    /\ pc = "collect_build"
    /\ IF ~is_dir(Now, dist_dir(paper))
         THEN /\ Raises([kind |-> "FileNotFoundError", path |-> dist_dir(paper)])
              /\ UNCHANGED <<fsVars, runs, todo, trace, reported, captured>>
         ELSE \E outcome \in BuildOutcomes, pdf \in BuildPdfs \cup {<<>>} :
                /\ runs' = NextRuns(runs)
                /\ captured' = outcome
                /\ SetFS(compile_fs(Now, outcome, pdf))
                /\ todo' = outcome.missing
                /\ reported' =
                     IF reported.regular /\ OneStillMissing(Now, outcome.missing)
                       THEN [regular |-> TRUE,
                             files |-> reported.files \cup Range(outcome.missing)]
                       ELSE Irregular
                /\ IF outcome.missing # <<>>
                     THEN /\ pc' = "collect_copy"
                          /\ UNCHANGED <<cmd, output, trace>>
                     ELSE /\ output' = Out("finished", <<>>, runs')
                          /\ trace' = End(trace, "collect")
                          /\ Returns("collect")
                /\ UNCHANGED scratch
    /\ listing' = <<>>
    /\ UNCHANGED <<proc, compareVars, stripVars, tmpVars>>

\* The destination without the renaming of line 247.
stem_dst_unrenamed(dst_file, src_file) == dst_file

\* line 247: dst_file.with_name(src_file.name)
stem_dst(dst_file, src_file) == with_name(dst_file, Name(src_file))

\* A search that stops at the first file, whatever dist/ holds.
RECURSIVE stem_search_first(_, _, _, _)
stem_search_first(fs, order, src_file, dst_file) ==
    IF order = <<>> THEN [src |-> src_file, dst |-> dst_file]
    ELSE IF ~is_file(fs, Head(order))
           THEN stem_search_first(fs, Tail(order), Head(order), dst_file)
           ELSE [src |-> Head(order), dst |-> stem_dst(dst_file, Head(order))]

\* _collect, lines 243 to 249: the for loop over the glob's entries, taken in
\* the order the directory lists them; the loop variable is src_file itself.
RECURSIVE stem_search(_, _, _, _)
stem_search(fs, order, src_file, dst_file) ==
    IF order = <<>> THEN [src |-> src_file, dst |-> dst_file]
    ELSE LET entry == Head(order)
         IN  IF ~is_file(fs, entry)
               THEN stem_search(fs, Tail(order), entry, dst_file)
               ELSE LET renamed == stem_dst(dst_file, entry)
                    IN  IF ~exists(fs, renamed)
                          THEN [src |-> entry, dst |-> renamed]
                          ELSE stem_search(fs, Tail(order), entry, renamed)

\* _collect, lines 240 to 249: the file to copy and where to.
resolve(fs, file, order) ==
    LET src_file == InSrc(file)
        dst_file == InDist(file)
    IN  IF ~exists(fs, src_file)
          THEN stem_search(fs, order, src_file, dst_file)
          ELSE [src |-> src_file, dst |-> dst_file]

\* The orders in which the glob of line 243 may list its entries.
glob_orders(fs, file) ==
    Perms(glob_stem(fs, Parent(InSrc(file)), Name(InSrc(file))))

\* _collect, lines 239 to 253: one iteration of `for file in missing`.
CollectCopy ==
    /\ pc = "collect_copy"
    /\ todo # <<>>
    /\ \E order \in glob_orders(Now, Head(todo)) :
       \E t \in {resolve(Now, Head(todo), order)} :
       \E made \in {mkdir_parents(Now, Parent(t.dst))} :
       \E copied \in {shutil_copy(made, t.src, t.dst)} :
         /\ listing' = IF exists(Now, InSrc(Head(todo))) THEN <<>> ELSE order
         /\ SetFS(copied.fs)
         /\ IF copied.err # NoError
              THEN Raises(copied.err) /\ UNCHANGED todo
              ELSE /\ todo' = Tail(todo)
                   /\ pc' = IF Tail(todo) = <<>> THEN "collect_build" ELSE "collect_copy"
                   /\ UNCHANGED <<cmd, output>>
    /\ UNCHANGED <<scratch, runs, proc, captured, histVars, compareVars, stripVars, tmpVars>>

RECURSIVE SumN(_, _)
SumN(f, S) ==
    IF S = {} THEN 0
    ELSE LET q == CHOOSE q \in S : TRUE
         IN  Subn(f[q]).n + SumN(f, S \ {q})

\* _squash_comments
DoStrip ==
    /\ pc = "strip"
    /\ LET tex_files == glob_tex(Now, dist_dir(paper)) \cap DOMAIN files
       IN  /\ files' = [q \in DOMAIN files |->
                          IF q \in tex_files THEN Subn(files[q]).out ELSE files[q]]
           /\ output' = Out("removed", <<>>, SumN(files, tex_files))
    /\ trace' = End(Begin("strip"), "strip")
    /\ Returns("strip")
    /\ UNCHANGED <<dirs, scratch, runs, todo, proc, captured, reported, compareVars, stripVars,
                   tmpVars, listing>>

\* A build whose result is thrown away.
discarded_proc(outcome, old) == old

\* run, line 80, and compile, line 134: proc, _ = _compile(dist(paper))
build_proc(outcome, old) == outcome

\* run, line 80, and compile, lines 134 to 146: one build of dist/.
DoBuild ==
    /\ pc = "build"
    /\ IF ~is_dir(Now, dist_dir(paper))
         THEN /\ Raises([kind |-> "FileNotFoundError", path |-> dist_dir(paper)])
              /\ UNCHANGED <<fsVars, proc, captured, trace>>
         ELSE \E outcome \in BuildOutcomes, pdf \in BuildPdfs \cup {<<>>} :
                /\ SetFS(compile_fs(Now, outcome, pdf))
                /\ proc' = build_proc(outcome, proc)
                /\ captured' = outcome
                /\ output' = IF cmd = "compile"
                               THEN [Out("compiled", <<>>, 0) EXCEPT !.diag = outcome]
                               ELSE output
                /\ trace' = End(Begin("build"), "build")
                /\ Returns("build")
                /\ UNCHANGED scratch
    /\ UNCHANGED <<runs, todo, reported, compareVars, stripVars, tmpVars, listing>>

\* pdftoppm writing pages into a directory that holds old page images: the
\* pages it writes replace the images of the same number.
render_into(old, pages) == pages \o SubSeq(old, Len(pages) + 1, Len(old))

\* What pdftoppm makes of a PDF: its pages, or nothing when it fails.
Renderings(fs, pdf) == {<<>>} \cup (IF is_file(fs, pdf) THEN {fs.files[Real(pdf)]} ELSE {})

\* The directory holds page images.
HasPages(s) == s.a # <<>> \/ s.b # <<>>

\* A removal that leaves the directory as it is.
keep_scratch(s) == s

\* shutil.rmtree of a page image directory.
rmtree_scratch(s) == NoScratch

\* The choices of --tmpdir, --src and --dist that decide `tmpdir`, lines 173
\* to 178: the default, the default's path given as --tmpdir, another
\* spelling of it, a directory of the user's, and here / "diff".
TmpdirChoices ==
    {[tmpdir |-> default_tmpdir, given |-> FALSE],
     [tmpdir |-> default_tmpdir, given |-> TRUE],
     [tmpdir |-> alias_tmpdir,   given |-> TRUE],
     [tmpdir |-> user_tmpdir,    given |-> TRUE],
     [tmpdir |-> here_tmpdir,    given |-> FALSE]}

\* compare, lines 164 to 178
StartCompare(choice) ==
    /\ cmd = "none"
    /\ pc \in {"idle", "crashed"}
    /\ cmd' = "compare"
    /\ pc' = "tmpdir"
    /\ tmpdir' = choice.tmpdir
    /\ given' = choice.given
    /\ trace' = <<>>
    /\ ResetLocals
    /\ UNCHANGED <<fsVars, stripVars>>

\* A condition that never asks.
never_confirm(t) == FALSE

\* compare, line 181
needs_confirm(t) == t # default_tmpdir

\* compare, lines 180 to 186: the removal of an existing tmpdir, after
\* click.confirm(abort=True) where line 181 asks for it.
CompareTmpdir ==
    /\ pc = "tmpdir"
    /\ IF scratch[Real(tmpdir)].exists
         THEN \E answer \in (IF needs_confirm(tmpdir) THEN BOOLEAN ELSE {TRUE}) :
                /\ asked' = IF ~needs_confirm(tmpdir) THEN "none"
                             ELSE IF answer THEN "yes" ELSE "no"
                /\ stale' = HasPages(scratch[Real(tmpdir)])
                /\ IF answer
                     THEN /\ scratch' = [scratch EXCEPT ![Real(tmpdir)] = rmtree_scratch(@)]
                          /\ pc' = "render"
                          /\ UNCHANGED <<cmd, output>>
                     ELSE /\ Raises([kind |-> "Abort", path |-> tmpdir])
                          /\ UNCHANGED scratch
         ELSE /\ pc' = "render"
              /\ UNCHANGED <<scratch, cmd, output, asked, stale>>
    /\ UNCHANGED <<files, dirs, runs, todo, proc, captured, histVars, compareVars, stripVars,
                   tmpdir, given, listing>>

\* run, lines 81 to 82: the removal of dist/tmp/diff, errors ignored.
DoCompare ==
    /\ pc = "compare"
    /\ stale' = HasPages(scratch[Real(tmpdir)])
    /\ scratch' = [scratch EXCEPT ![Real(tmpdir)] = rmtree_scratch(@)]
    /\ pc' = "render"
    /\ trace' = Begin("compare")
    /\ UNCHANGED <<files, dirs, cmd, runs, todo, proc, captured, output, reported, compareVars,
                   stripVars, tmpdir, given, asked, listing>>

\* The artifacts _compare is given: run compares paper.pdf with
\* dist/paper.pdf; --src and --dist may name either.
Artifacts(c) ==
    IF c = "run" THEN {<<src_pdf, dist_pdf>>}
    ELSE {src_pdf, dist_pdf} \X {src_pdf, dist_pdf}

\* _compare, lines 272 to 282: the directories a and b, the two pdftoppm
\* runs, and the sorted listings.
DoRender ==
    /\ pc = "render"
    /\ \E ab \in Artifacts(cmd) :
       \E ra \in Renderings(Now, ab[1]), rb \in Renderings(Now, ab[2]) :
         /\ scratch' = [scratch EXCEPT ![Real(tmpdir)] =
                           [exists |-> TRUE,
                            a |-> render_into(@.a, ra),
                            b |-> render_into(@.b, rb)]]
         /\ a_pages' = scratch'[Real(tmpdir)].a
         /\ b_pages' = scratch'[Real(tmpdir)].b
    /\ dirs' = IF Real(tmpdir) = default_tmpdir THEN dirs \cup Prefixes(aux_dir) ELSE dirs
    /\ page' = 0
    /\ verdict' = "none"
    /\ pc' = "cmp_len"
    /\ UNCHANGED <<files, cmd, runs, todo, proc, captured, output, histVars, stripVars,
                   tmpVars, listing>>

\* _compare, lines 284 to 286
CmpLen ==
    /\ pc = "cmp_len"
    /\ IF Len(a_pages) # Len(b_pages)
         THEN /\ verdict' = "diverged"
              /\ output' = [Out("page_count", <<>>, Len(a_pages)) EXCEPT !.num2 = Len(b_pages)]
              /\ trace' = End(trace, "compare")
              /\ Returns("compare")
         ELSE /\ pc' = "cmp_page"
              /\ UNCHANGED <<cmd, verdict, output, trace>>
    /\ UNCHANGED <<fsVars, runs, todo, proc, captured, reported, a_pages, b_pages, page, stripVars,
                   tmpVars, listing>>

\* A comparator that ends its loop with `return False`.
loop_end_diverged == "diverged"

\* _compare, lines 298 to 299: the value returned when the loop ends.
loop_end == "equivalent"

\* _compare, lines 288 to 299: one iteration of the loop, or its end.
CmpPage ==
    /\ pc = "cmp_page"
    /\ IF page < Len(a_pages)
         THEN IF PagesMatch(a_pages[page + 1], b_pages[page + 1])
                THEN /\ page' = page + 1
                     /\ UNCHANGED <<cmd, pc, verdict, output, trace>>
                ELSE /\ verdict' = "diverged"
                     /\ output' = Out("difference", <<>>, page)
                     /\ trace' = End(trace, "compare")
                     /\ Returns("compare")
                     /\ UNCHANGED page
         ELSE /\ verdict' = loop_end
              /\ output' = Out("no_difference", <<>>, 0)
              /\ trace' = End(trace, "compare")
              /\ Returns("compare")
              /\ UNCHANGED page
    /\ UNCHANGED <<fsVars, runs, todo, proc, captured, reported, a_pages, b_pages, stripVars,
                   tmpVars, listing>>

\* run, lines 88 to 93
RunReport ==
    /\ pc = "report"
    /\ output' = IF verdict # "equivalent"
                   THEN [Out("failed", <<>>, 0) EXCEPT !.diag = proc]
                   ELSE output
    /\ pc' = "idle"
    /\ cmd' = "none"
    /\ UNCHANGED <<fsVars, runs, todo, proc, captured, histVars, compareVars, stripVars,
                   tmpVars, listing>>

Next ==
    \/ \E clean \in BOOLEAN : StartRun(clean)
    \/ \E c \in StageCommands : StartStage(c)
    \/ DoInit
    \/ CollectEnter
    \/ CollectBuild
    \/ CollectCopy
    \/ DoStrip
    \/ DoBuild
    \/ DoCompare
    \/ DoRender
    \/ CmpLen
    \/ CmpPage
    \/ RunReport

Spec == Init /\ [][Next]_vars

\* The steps of _collect.
CollectStep == CollectEnter \/ CollectBuild \/ CollectCopy

\* _collect runs in one sequential process, and every build attempt and every
\* copy returns: a started _collect keeps taking its steps.
FairSpec == Init /\ [][Next]_vars /\ WF_vars(CollectStep)

----------------------------------------------------------------------------
(* The Visual Comparator on its own: _compare from line 284, on any two
   listings of page images *)

CompareInit ==
    /\ a_pages \in SeqsUpTo(Images, MaxPages)
    /\ b_pages \in SeqsUpTo(Images, MaxPages)
    /\ page = 0
    /\ verdict = "none"
    /\ cmd = "none"
    /\ pc = "cmp_len"
    /\ files = <<>>
    /\ dirs = {}
    /\ TypeDefaults
    /\ StripIdle

CompareNext == CmpLen \/ CmpPage

CompareSpec == CompareInit /\ [][CompareNext]_vars

----------------------------------------------------------------------------
(* The callers of _compare on their own: run from line 81 and the compare
   command, on a project that was built and on page image directories that
   earlier comparisons may have left behind *)

\* What an earlier comparison may have left of a page image directory.
OldScratch ==
    {NoScratch,
     [exists |-> TRUE, a |-> <<>>, b |-> <<>>],
     [exists |-> TRUE, a |-> <<P1, P1>>, b |-> <<P1>>]}

\* The project directories after init and one build.
BuiltTrees ==
    {compile_fs(shutil_copy(mkdir_parents(fs, dist_dir(paper)), paper, dist(paper)).fs,
                NoProc, pdf) :
        fs \in SourceTrees, pdf \in {<<>>, <<P0>>, <<P1>>}}

ScratchInit ==
    /\ \E fs \in BuiltTrees : files = fs.files /\ dirs = fs.dirs
    /\ scratch \in [ScratchDirs -> OldScratch]
    /\ \/ cmd = "none" /\ pc = "idle" /\ trace = <<>>
       \/ cmd = "run" /\ pc = "compare"
            /\ trace = Events(SubSeq(RunStages, 1, Len(RunStages) - 1))
    /\ tmpdir = default_tmpdir
    /\ given = FALSE
    /\ asked = "none"
    /\ stale = FALSE
    /\ listing = <<>>
    /\ runs = 0
    /\ todo = <<>>
    /\ proc = NoProc
    /\ captured = NoProc
    /\ output = NoOutput
    /\ reported = Irregular
    /\ CompareIdle
    /\ StripIdle

ScratchNext ==
    \/ \E choice \in TmpdirChoices : StartCompare(choice)
    \/ CompareTmpdir
    \/ DoCompare
    \/ DoRender
    \/ CmpLen
    \/ CmpPage
    \/ RunReport

ScratchSpec == ScratchInit /\ [][ScratchNext]_vars

----------------------------------------------------------------------------
(* The Comment Stripper on its own: lines 264 to 267 on one file, run on
   the file again *)

\* contents, n = re.subn(...); total += n
SquashText ==
    /\ pc = "squash"
    /\ passes < 2
    /\ contents' = Subn(contents).out
    /\ n' = Subn(contents).n
    /\ passes' = passes + 1
    /\ UNCHANGED <<fsVars, cmd, pc, runs, todo, proc, captured, output, compareVars,
                   trace, reported, text0, tmpVars, listing>>

StripInit ==
    /\ contents \in SeqsUpTo(Chars, MaxLen)
    /\ text0 = contents
    /\ n = 0
    /\ passes = 0
    /\ cmd = "none"
    /\ pc = "squash"
    /\ files = <<>>
    /\ dirs = {}
    /\ TypeDefaults
    /\ CompareIdle

StripNext == SquashText

StripSpec == StripInit /\ [][StripNext]_vars

----------------------------------------------------------------------------
(* Properties *)

InCollect == pc \in {"collect", "collect_build", "collect_copy"}

\* C1: every _collect that starts stops after finitely many build attempts,
\* in success or in an error, whatever reports the builds return.
C1_CollectTerminates == InCollect ~> ~InCollect

\* _collect has just returned after builds that each reported exactly one
\* file the Source Tree holds and the Working Copy lacked, starting from a
\* Working Copy that held the primary document only.
CollectedOneByOne == output.kind = "finished" /\ reported.regular

Needed == {Real(InDist(f)) : f \in reported.files}

\* C2, as stated: after N such reports the iteration count is N + 1 and the
\* Working Copy outside dist/tmp holds the primary document and the N files,
\* nothing else.
C2_ExactlyTheNeededFiles ==
    CollectedOneByOne =>
        /\ output.num = Cardinality(reported.files) + 1
        /\ WCFiles(files) = {dist(paper)} \cup Needed

\* C2, amended: the same, except that the PDF the builds wrote next to the
\* primary document may be there too.
C2_NeededFilesAndOutputPdf ==
    CollectedOneByOne =>
        /\ output.num = Cardinality(reported.files) + 1
        /\ WCFiles(files) \ {dist_pdf} = {dist(paper)} \cup Needed

C2_Witness ==
    /\ CollectedOneByOne
    /\ Cardinality(reported.files) = 2
    /\ output.num = 3
    /\ dist_pdf \in DOMAIN files

\* The file the for loop of _collect is about to handle.
file == Head(todo)

StemFiles(f) ==
    {e \in glob_stem(Now, Parent(InSrc(f)), Name(InSrc(f))) : is_file(Now, e)}

\* The Source Tree has nothing at the reported path and no file with that
\* stem in the same directory.
NoMatch(f) == ~exists(Now, InSrc(f)) /\ StemFiles(f) = {}

\* C3: a reported path without a match in the Source Tree makes _collect stop
\* with an error that names that path, without another build attempt.
C3_UnresolvableNamed ==
    [][(pc = "collect_copy" /\ NoMatch(file)) =>
          /\ pc' = "crashed"
          /\ runs' = runs
          /\ output'.path = InSrc(file)]_vars

\* C4: a reported path d/s that the Source Tree lacks, while d holds a file
\* s.ext, is answered by copying such a file to d/s.ext in the Working Copy,
\* and nothing is written to d/s.
C4_StemCopiedWithExtension ==
    [][(pc = "collect_copy" /\ ~exists(Now, InSrc(file)) /\ StemFiles(file) # {}) =>
          /\ pc' # "crashed"
          /\ \E e \in StemFiles(file) :
                LET dst == Real(InDist(relative_to(e, src_dir(paper))))
                IN  dst \in DOMAIN files' /\ files'[dst] = files[Real(e)]
          /\ Real(InDist(file)) \in DOMAIN files' => Real(InDist(file)) \in DOMAIN files]_vars

\* The Source Tree outside the Working Copy: its files with their contents,
\* and its directories.
InSourceTree(q) ==
    (q = src_dir(paper) \/ Under(q, src_dir(paper)))
        /\ q # dist_dir(paper) /\ ~InWC(q)

SourceTree ==
    [files |-> [q \in {r \in DOMAIN files : InSourceTree(r)} |-> files[q]],
     dirs  |-> {q \in dirs : InSourceTree(q)}]

\* C5: no step creates, overwrites or deletes a file or directory of the
\* Source Tree outside the Working Copy.
C5_SourceTreeReadOnly == [][SourceTree' = SourceTree]_vars

\* The file of the Source Tree at the same relative path.
Counterpart(q) == InSrc(relative_to(q, dist_dir(paper)))

\* C6, as stated: while Initialize or Collect runs, every Working Copy file
\* outside dist/tmp has the relative path of a file of the Source Tree.
C6_MirrorsSourceTree ==
    (pc = "init" \/ InCollect) =>
        \A q \in WCFiles(files) : is_file(Now, Counterpart(q))

\* C6, amended: while Initialize or Collect runs, every Working Copy file
\* outside dist/tmp other than the PDF the build writes next to the primary
\* document has the relative path of a file of the Source Tree.
C6_MirrorsSourceTreeButPdf ==
    (pc = "init" \/ InCollect) =>
        \A q \in WCFiles(files) \ {dist_pdf} : is_file(Now, Counterpart(q))

C6_Witness ==
    /\ Real(InDist(sec_tex)) \in DOMAIN files
    /\ dist_pdf \in DOMAIN files
    /\ src_pdf \notin DOMAIN files
    /\ pc = "collect_copy"

\* Two page sequences that agree in length and, page by page, in pixel
\* dimensions and in every pixel.
SamePages(A, B) ==
    /\ Len(A) = Len(B)
    /\ \A k \in 1..Len(A) :
          /\ A[k].size = B[k].size
          /\ \A c \in Coords(A[k].size) : A[k].px[c] = B[k].px[c]

\* C7: _compare returns equivalence exactly when the two page sequences have
\* the same length and equal dimensions and pixels on every page, and
\* divergence otherwise.
C7_VerdictIffSamePages ==
    verdict # "none" =>
        /\ verdict \in {"equivalent", "diverged"}
        /\ verdict = "equivalent" <=> SamePages(a_pages, b_pages)

C7_Witness ==
    /\ verdict = "equivalent"
    /\ Len(a_pages) = MaxPages
    /\ \E k \in 1..Len(a_pages) : \E c \in Coords(a_pages[k].size) : a_pages[k].px[c] # 0

\* C8: stripping the output of the stripper again changes nothing and
\* counts no substitution.
C8_StripIdempotent ==
    [][(passes = 1 /\ passes' = 2) => (contents' = contents /\ n' = 0)]_vars

C8_Witness == passes = 2 /\ contents # text0 /\ n = 0

\* The length of the run of backslashes that ends right before position i.
EscRun(s, i) ==
    CHOOSE k \in 0..(i - 1) :
        /\ \A m \in (i - k)..(i - 1) : s[m] = BS
        /\ i - k = 1 \/ s[i - k - 1] # BS

\* An active comment marker: a percent sign after an even run of backslashes.
Active(s, i) == s[i] = PC /\ EscRun(s, i) % 2 = 0

\* Position k follows an active marker of its own line.
Commented(s, k) ==
    \E j \in 1..(k - 1) : Active(s, j) /\ \A m \in j..k : s[m] # NL

RECURSIVE KeepFrom(_, _)
KeepFrom(s, k) ==
    IF k > Len(s) THEN <<>>
    ELSE (IF Commented(s, k) THEN <<>> ELSE <<s[k]>>) \o KeepFrom(s, k + 1)

\* Every line cut right after its first active marker.
CutText(s) == KeepFrom(s, 1)

\* C9: the stripper cuts each line right after its first active marker and
\* changes nothing else.
C9_CutAfterFirstActiveMarker == passes = 1 => contents = CutText(text0)

C9_Witness ==
    /\ passes = 1
    /\ contents # text0
    /\ \E i \in 1..Len(text0) : text0[i] = PC /\ EscRun(text0, i) % 2 = 1

StageOrder == <<"init", "collect", "strip", "build", "compare">>

\* C10: run begins and ends its stages in the order Initialize, Collect,
\* Strip, Build, Compare, each at most once and none before the previous
\* one has ended.
C10_StagesInOrder == IsPrefix(trace, Events(StageOrder))

C10_Witness == pc = "idle" /\ trace = Events(StageOrder)

\* C11: when run's final comparison ends in divergence, run prints the
\* output captured from the last build, the one of the Build stage; when it
\* ends in equivalence, run prints nothing more.
C11_DiagnosticsOnDivergence ==
    [][pc = "report" =>
          IF verdict = "equivalent"
            THEN output' = output
            ELSE output'.kind = "failed" /\ output'.diag = captured]_vars

C11_Witness ==
    /\ pc = "idle"
    /\ output.kind = "failed"
    /\ output.diag = captured
    /\ captured.missing # <<>>
    /\ verdict = "diverged"

\* C12: a build inside _collect that fails with diagnostics of no
\* missing-file kind ends _collect without another build attempt, and the
\* output captured from that build is printed.
C12_UnmatchedDiagnosticsSurfaced ==
    [][(pc = "collect_build" /\ captured'.other_error /\ captured'.missing = <<>>) =>
          /\ ~InCollect'
          /\ output'.diag = captured']_vars

\* The compare command has found that its tmpdir exists.
TmpdirExists == pc = "tmpdir" /\ scratch[Real(tmpdir)].exists

\* C13, as stated: an existing tmpdir that was given with --tmpdir is deleted
\* only after the user confirmed, and a refusal aborts the command with the
\* directory untouched; an existing tmpdir that was not given is deleted
\* without a prompt.
C13_ConfirmIffGiven ==
    [][TmpdirExists =>
          /\ given => asked' \in {"yes", "no"}
          /\ ~given => asked' = "none"
          /\ asked' = "no" => pc' = "crashed" /\ scratch' = scratch
          /\ asked' # "no" => pc' = "render" /\ scratch'[Real(tmpdir)] = NoScratch]_vars

\* C13, amended: the prompt depends on the path, not on the option.  An
\* existing tmpdir whose path as written differs from <dist>/tmp/diff is
\* deleted only after the user confirmed, and a refusal aborts the command
\* with the directory untouched; an existing tmpdir with exactly that path is
\* deleted without a prompt.
C13_ConfirmIffNotDefaultPath ==
    [][TmpdirExists =>
          /\ tmpdir # default_tmpdir => asked' \in {"yes", "no"}
          /\ tmpdir = default_tmpdir => asked' = "none"
          /\ asked' = "no" => pc' = "crashed" /\ scratch' = scratch
          /\ asked' # "no" => pc' = "render" /\ scratch'[Real(tmpdir)] = NoScratch]_vars

C13_Witness ==
    /\ asked = "no"
    /\ pc = "crashed"
    /\ tmpdir = here_tmpdir
    /\ ~given
    /\ HasPages(scratch[Real(tmpdir)])
    /\ verdict = "none"

\* Two pages differ in their dimensions or in a pixel.
PageDiffers(x, y) ==
    x.size # y.size \/ \E c \in Coords(x.size) : x.px[c] # y.px[c]

\* k is the lowest zero-based index at which A and B differ.
LowestDifference(A, B, k) ==
    /\ k \in 0..(Len(A) - 1)
    /\ PageDiffers(A[k + 1], B[k + 1])
    /\ \A j \in 0..(k - 1) : ~PageDiffers(A[j + 1], B[j + 1])

\* C14: a divergence of sequences of equal length names the lowest index at
\* which the pages differ, and no later pair is compared; a divergence of
\* sequences of different lengths names both lengths, and no pair is
\* compared.
C14_LowestIndexReported ==
    verdict = "diverged" =>
        IF Len(a_pages) # Len(b_pages)
          THEN /\ output.kind = "page_count"
               /\ output.num = Len(a_pages)
               /\ output.num2 = Len(b_pages)
               /\ page = 0
          ELSE /\ output.kind = "difference"
               /\ LowestDifference(a_pages, b_pages, output.num)
               /\ page = output.num

C14_Witness ==
    /\ verdict = "diverged"
    /\ output.kind = "difference"
    /\ output.num = 1
    /\ Len(a_pages) = 2
    /\ a_pages[2].size = b_pages[2].size

\* All files of the Working Copy, the Auxiliary Directory included.
WCAll(f) == {q \in DOMAIN f : InWC(q)}

\* C15: no step of Initialize or Collect removes a file from the Working
\* Copy, on a fresh Working Copy or on one that earlier commands left.
C15_WorkingCopyGrows ==
    [][(pc = "init" \/ InCollect) => WCAll(files) \subseteq WCAll(files')]_vars

C15_Witness ==
    /\ pc = "collect_copy"
    /\ runs >= 2
    /\ Real(InDist(file)) \in DOMAIN files
    /\ Cardinality(WCFiles(files)) >= 3

\* The reported path is not in the Source Tree and several files of its
\* directory have its stem.
SeveralMatches(f) == ~exists(Now, InSrc(f)) /\ Cardinality(StemFiles(f)) >= 2

\* Where the Working Copy keeps the Source Tree's file e.
DstOf(e) == Real(InDist(relative_to(e, src_dir(paper))))

\* The first entry of a listing that is in S.
FirstIn(order, S) ==
    order[CHOOSE k \in 1..Len(order) :
              order[k] \in S /\ \A j \in 1..(k - 1) : order[j] \notin S]

\* This step copies the Source Tree's file e to its place in the Working
\* Copy and does nothing else to the files.
CopiesOnly(e) ==
    /\ pc' # "crashed"
    /\ files' = (DstOf(e) :> files[Real(e)]) @@ files

\* C16, as stated: of several files with the reported stem, the first one the
\* directory search lists is copied, whatever the Working Copy holds.
C16_FirstMatchCopied ==
    [][(pc = "collect_copy" /\ SeveralMatches(file)) =>
          CopiesOnly(FirstIn(listing', StemFiles(file)))]_vars

\* The matches whose place in the Working Copy is still free.
FreshMatches(f) == {e \in StemFiles(f) : DstOf(e) \notin DOMAIN files \cup dirs}

\* C16, amended: of several files with the reported stem, the first one
\* listed whose place in the Working Copy is free is copied; when no place is
\* free no file is added: the last entry listed is copied over its place, or
\* the copy fails if that entry is a directory.
C16_FirstFreshMatchCopied ==
    [][(pc = "collect_copy" /\ SeveralMatches(file)) =>
          IF FreshMatches(file) # {}
            THEN CopiesOnly(FirstIn(listing', FreshMatches(file)))
            ELSE IF is_file(Now, Last(listing'))
                   THEN CopiesOnly(Last(listing'))
                   ELSE pc' = "crashed" /\ files' = files]_vars

C16_Witness ==
    /\ pc = "collect_build"
    /\ Len(listing) = 2
    /\ listing[1] = InSrc(plot_pdf)
    /\ listing[2] = InSrc(plot_png)
    /\ runs >= 2
    /\ {DstOf(listing[1]), DstOf(listing[2])} \subseteq DOMAIN files

\* What the renderer can make of the artifacts as they are now.
CurrentRenderings ==
    {<<>>} \cup {files[q] : q \in {src_pdf, dist_pdf} \cap DOMAIN files}

AfterCollect ==
    cmd = "run" /\ pc \in {"strip", "build", "compare", "render", "cmp_len", "cmp_page", "report"}

\* Every .tex file of the Working Copy outside dist/tmp is the Source Tree's
\* file of the same relative path with its comments cut.
AllTexStripped(f) ==
    \A q \in WCFiles(f) :
        Last(Name(q)) = "tex" =>
            /\ Real(Counterpart(q)) \in DOMAIN f
            /\ f[q] = CutText(f[Real(Counterpart(q))])

\* C18: once run has started Strip, no step adds a file to the Working Copy
\* other than the build's PDF, and when Compare starts every .tex file of the
\* Working Copy has been stripped.
C18_NothingCopiedAfterStrip ==
    [][AfterCollect =>
          /\ WCFiles(files') \ {dist_pdf} = WCFiles(files) \ {dist_pdf}
          /\ pc' = "compare" => AllTexStripped(files')]_vars

C18_Witness ==
    /\ cmd = "run"
    /\ pc = "compare"
    /\ DstOf(InSrc(sec_tex)) \in DOMAIN files
    /\ files[DstOf(InSrc(sec_tex))] # files[Real(InSrc(sec_tex))]
    /\ AllTexStripped(files)

\* The page images in tmpdir.
Found == scratch[Real(tmpdir)]

\* C19: the verdict of _compare is decided by the page images found in
\* tmpdir alone, whether the renderer failed or not; when both directories
\* hold no page image the verdict is equivalence.
C19_DecidedByPagesFound ==
    verdict # "none" =>
        /\ verdict = "equivalent" <=> SamePages(Found.a, Found.b)
        /\ (Found.a = <<>> /\ Found.b = <<>>) => verdict = "equivalent"

C19_Witness ==
    /\ verdict = "equivalent"
    /\ Found.exists
    /\ Found.a = <<>>
    /\ Found.b = <<>>
    /\ {src_pdf, dist_pdf} \subseteq DOMAIN files

====
